---- MODULE Spec2Model ----
(***************************************************************************)
(* Document version / confirmation consistency model of the visitor and    *)
(* event management application.                                           *)
(*                                                                         *)
(* The state is the content of the database tables the document pages, the *)
(* visitor landing page and the admin dashboard read and write, plus the   *)
(* React state of the visitor's document dialog (one record per open       *)
(* browser session) and the position of each admin's version upload.       *)
(***************************************************************************)
EXTENDS Integers, Sequences, FiniteSets, TLC

\* ------------------------------------------------------------------ bounds
MaxVersions == 3        \* rows of document_versions the model lets exist
MaxConfs == 2           \* rows of visitor_confirmations the model lets exist
MaxRows == 3            \* data rows of an imported worksheet
MaxSends == 2           \* calls of send-reminder-emails the model follows
MaxArgs == 3            \* arguments of a call of cn

\* ------------------------------------------------------------- identifiers
Docs == {"d1", "d2"}
DocTypes == {"t1", "t2"}
Events == {"e1"}
Visitors == {"v1", "v2"}
Sessions == {"s1", "s2"}
Admins == {"a1", "a2"}

NoDoc == "none"
NoVersion == 0
NoRow == "none"
NoEvent == "none"
NoVisitor == "none"

VARIABLES
    is_active,              \* documents: id -> is_active
    visitorSearch,          \* visitors page: the search term
    selectedVisitorIds,     \* visitors page: ids of the ticked visitors
    visitors,               \* visitors: the ids that have a row
    home,                   \* per session: the props Home gave to Features
    worksheet,              \* import: the data rows of the uploaded sheet
    uploadResult,           \* import: the result shown after the upload
    newVisitors,            \* import: rows it inserted into visitors
    newEventVisitors,       \* import: rows it inserted into event_visitors
    confirmations,          \* dashboard: the pending list last fetched
    search,                 \* dashboard: the search term
    selectedRows,           \* dashboard: keys of the ticked rows
    reminded,               \* dashboard: visitors handed to send-reminder-emails
    inputs,                 \* cn: the arguments of the call
    className,              \* cn: the value returned
    documents,              \* documents: id -> document_type_id, NoDoc = no row
    requires_confirmation,  \* document_types: id -> requires_confirmation
    document_versions,      \* rows in insertion order; the id is the index
    document_events,        \* set of <<document_id, event_id>>
    event_visitors,         \* <<visitor_id, event_id>> -> rsvp_status or NoRow
    visitor_confirmations,  \* rows in insertion order
    session,                \* per session: state of the document dialog
    upload                  \* per admin: position in handleUploadVersion

visitorVars == <<visitors, home>>
importVars == <<worksheet, uploadResult, newVisitors, newEventVisitors>>
reportVars == <<confirmations, search, selectedRows, reminded>>
cnVars == <<inputs, className>>
adminVars == <<is_active, visitorSearch, selectedVisitorIds>>
otherVars == <<visitorVars, importVars, reportVars, cnVars, adminVars>>

vars == <<documents, requires_confirmation, document_versions, document_events,
          event_visitors, visitor_confirmations, session, upload, otherVars>>

\* The props the landing page hands to the Features component of a session:
\* the visitor linked to the signed-in profile and that visitor's next event.
visitorId(s) == home[s].visitorId
eventId(s) == home[s].eventId

\* ------------------------------------------------------------ set helpers
Max(S) == CHOOSE x \in S : \A y \in S : y <= x

VersionIds == 1..Len(document_versions)

VersionsOf(vs, d) == {i \in 1..Len(vs) : vs[i].document_id = d}

\* .eq("document_id", d).eq("is_current", true)
CurrentVersionsOf(vs, d) == {i \in VersionsOf(vs, d) : vs[i].is_current}

\* PostgREST .single(): the row when exactly one row matches, null otherwise
Single(S, null) == IF Cardinality(S) = 1 THEN CHOOSE x \in S : TRUE ELSE null

\* ---------------------------------------------------- version table writes
\* rpc get_next_version_number(doc_id)
get_next_version_number(vs, d) ==
    IF VersionsOf(vs, d) = {} THEN 1
    ELSE Max({vs[i].version_number : i \in VersionsOf(vs, d)}) + 1

\* update({ is_current: false }).eq("document_id", d) done wrongly: nothing
ClearCurrentSkipped(vs, d) == vs

\* update({ is_current: false }).eq("document_id", d)
ClearCurrent(vs, d) ==
    [i \in 1..Len(vs) |->
        IF vs[i].document_id = d THEN [vs[i] EXCEPT !.is_current = FALSE]
        ELSE vs[i]]

\* insert({ document_id, version_number, ..., is_current: true })
InsertVersion(vs, d, n) ==
    Append(vs, [document_id |-> d, version_number |-> n, is_current |-> TRUE])

\* rpc set_current_version(version_id)
set_current_version(vs, id) ==
    [i \in 1..Len(vs) |->
        IF vs[i].document_id = vs[id].document_id
        THEN [vs[i] EXCEPT !.is_current = (i = id)]
        ELSE vs[i]]

\* ------------------------------------------------------------------- Init
closedDialog ==
    [currentDocumentId |-> NoDoc, currentVersionId |-> NoVersion,
     requiresConfirmation |-> FALSE, alreadyConfirmed |-> FALSE,
     confirmationSuccess |-> FALSE, documentUrl |-> FALSE, error |-> "none"]

idleUpload == [pc |-> "idle", doc |-> NoDoc, nextVersion |-> 0]

NoResult == [total |-> 0, success |-> 0, errors |-> <<>>]

\* The pages other than the document pages as they are before anyone uses
\* them: every visitor has a row, each session belongs to visitor v1, who
\* is invited to event e1, nothing imported, nothing fetched or selected on
\* the dashboard, cn not called, nothing searched or ticked on the visitors
\* page; a document is active when it is created.
InitPages ==
    /\ is_active = [d \in Docs |-> TRUE]
    /\ visitorSearch = <<>>
    /\ selectedVisitorIds = {}
    /\ visitors = Visitors
    /\ home = [s \in Sessions |-> [visitorId |-> "v1", eventId |-> "e1"]]
    /\ worksheet = <<>>
    /\ uploadResult = NoResult
    /\ newVisitors = <<>>
    /\ newEventVisitors = <<>>
    /\ confirmations = <<>>
    /\ search = <<>>
    /\ selectedRows = {}
    /\ reminded = <<>>
    /\ inputs = <<>>
    /\ className = <<>>

Init ==
    /\ documents = [d \in Docs |-> NoDoc]
    /\ requires_confirmation \in {f \in [DocTypes -> BOOLEAN] : f["t1"]}
    /\ document_versions = <<>>
    /\ document_events = {}
    /\ event_visitors = [p \in Visitors \X Events |-> "invited"]
    /\ visitor_confirmations = <<>>
    /\ session = [s \in Sessions |-> closedDialog]
    /\ upload = [a \in Admins |-> idleUpload]
    /\ InitPages

\* ------------------------------------------------- admin: documents page
\* handleSaveDocument, creating branch: insert the document, upload the file,
\* insert version 1 as current; a failure after the document insert leaves
\* the document without a version.
HandleSaveDocumentNew(d, t, uploadOk, versionOk) ==
    /\ documents[d] = NoDoc
    /\ Len(document_versions) < MaxVersions
    /\ documents' = [documents EXCEPT ![d] = t]
    /\ document_versions' =
          IF uploadOk /\ versionOk THEN InsertVersion(document_versions, d, 1)
          ELSE document_versions
    /\ UNCHANGED <<otherVars, requires_confirmation, document_events, event_visitors,
                   visitor_confirmations, session, upload>>

\* handleSaveDocument, editing branch: update the document's payload
HandleSaveDocumentEdit(d, t) ==
    /\ documents[d] # NoDoc
    /\ documents[d] # t
    /\ documents' = [documents EXCEPT ![d] = t]
    /\ UNCHANGED <<otherVars, requires_confirmation, document_versions, document_events,
                   event_visitors, visitor_confirmations, session, upload>>

\* handleUploadVersion run from start to end with nothing in between
HandleUploadVersion(d, uploadOk, versionOk) ==
    /\ documents[d] # NoDoc
    /\ Len(document_versions) < MaxVersions
    /\ \A a \in Admins : upload[a].pc = "idle"
    /\ LET nextVersion == get_next_version_number(document_versions, d)
           cleared == ClearCurrent(document_versions, d)
       IN  document_versions' =
              IF ~uploadOk THEN document_versions
              ELSE IF ~versionOk THEN cleared
              ELSE InsertVersion(cleared, d, nextVersion)
    /\ UNCHANGED <<otherVars, documents, requires_confirmation, document_events,
                   event_visitors, visitor_confirmations, session, upload>>

\* setCurrentVersion: offered on the rows of the history list that are not
\* current
SetCurrentVersion(id) ==
    /\ id \in VersionIds
    /\ ~document_versions[id].is_current
    /\ document_versions' = set_current_version(document_versions, id)
    /\ UNCHANGED <<otherVars, documents, requires_confirmation, document_events,
                   event_visitors, visitor_confirmations, session, upload>>

\* handleAssignEvents: delete the document's assignments, insert the selected
HandleAssignEvents(d, selectedEvents) ==
    /\ documents[d] # NoDoc
    /\ document_events' =
          {p \in document_events : p[1] # d} \cup {<<d, e>> : e \in selectedEvents}
    /\ document_events' # document_events
    /\ UNCHANGED <<otherVars, documents, requires_confirmation, document_versions,
                   event_visitors, visitor_confirmations, session, upload>>

AdminNext ==
    \/ \E d \in Docs, t \in DocTypes : HandleSaveDocumentNew(d, t, TRUE, TRUE)
    \/ \E d \in Docs, t \in DocTypes : HandleSaveDocumentEdit(d, t)
    \/ \E d \in Docs : HandleUploadVersion(d, TRUE, TRUE)
    \/ \E id \in VersionIds : SetCurrentVersion(id)
    \/ \E d \in Docs, S \in SUBSET Events : HandleAssignEvents(d, S)

\* ---------------------------------------------- visitor: landing page
\* checkExistingConfirmation with the condition on the version left out
checkExistingConfirmationAnyVersion(confs, v, e, d, ver) ==
    \E i \in 1..Len(confs) :
        /\ confs[i].visitor_id = v
        /\ confs[i].event_id = e
        /\ confs[i].document_id = d

\* checkExistingConfirmation(docId, versionId)
checkExistingConfirmation(confs, v, e, d, ver) ==
    \E i \in 1..Len(confs) :
        /\ confs[i].visitor_id = v
        /\ confs[i].event_id = e
        /\ confs[i].document_id = d
        /\ confs[i].document_version_id = ver

\* handleCardClick without the check of lines 313..317: a document without
\* a current version is shown like any other
HandleCardClickUnchecked(s, t) ==
    LET needsConfirmation == requires_confirmation[t]
        documentIds == {p[1] : p \in {q \in document_events : q[2] = eventId(s)}}
        doc == Single({d \in documentIds : documents[d] = t}, NoDoc)
        currentVersion ==
            IF doc = NoDoc THEN NoVersion
            ELSE Single(CurrentVersionsOf(document_versions, doc), NoVersion)
        opened == [closedDialog EXCEPT !.requiresConfirmation = needsConfirmation]
        result ==
            IF eventId(s) = NoEvent THEN [session[s] EXCEPT !.error = "noEvent"]
            ELSE IF documentIds = {} THEN [opened EXCEPT !.error = "noDocuments"]
            ELSE IF doc = NoDoc THEN [opened EXCEPT !.error = "noDocument"]
            ELSE [opened EXCEPT
                    !.currentDocumentId = doc,
                    !.currentVersionId = currentVersion,
                    !.alreadyConfirmed =
                        needsConfirmation /\
                        checkExistingConfirmation(visitor_confirmations,
                            visitorId(s), eventId(s), doc, currentVersion),
                    !.documentUrl = TRUE]
    IN  /\ session' = [session EXCEPT ![s] = result]
        /\ session' # session
        /\ UNCHANGED <<otherVars, documents, requires_confirmation, document_versions,
                       document_events, event_visitors, visitor_confirmations,
                       upload>>

\* handleCardClick(documentType, title): reset the dialog, resolve the
\* document of that type assigned to the event and its current version
HandleCardClick(s, t) ==
    LET needsConfirmation == requires_confirmation[t]
        documentIds == {p[1] : p \in {q \in document_events : q[2] = eventId(s)}}
        doc == Single({d \in documentIds : documents[d] = t}, NoDoc)
        currentVersion ==
            IF doc = NoDoc THEN NoVersion
            ELSE Single(CurrentVersionsOf(document_versions, doc), NoVersion)
        opened == [closedDialog EXCEPT !.requiresConfirmation = needsConfirmation]
        result ==
            IF eventId(s) = NoEvent THEN [session[s] EXCEPT !.error = "noEvent"]
            ELSE IF documentIds = {} THEN [opened EXCEPT !.error = "noDocuments"]
            ELSE IF doc = NoDoc THEN [opened EXCEPT !.error = "noDocument"]
            ELSE IF currentVersion = NoVersion
                 THEN [opened EXCEPT !.currentDocumentId = doc, !.error = "noFile"]
            ELSE [opened EXCEPT
                    !.currentDocumentId = doc,
                    !.currentVersionId = currentVersion,
                    !.alreadyConfirmed =
                        needsConfirmation /\
                        checkExistingConfirmation(visitor_confirmations,
                            visitorId(s), eventId(s), doc, currentVersion),
                    !.documentUrl = TRUE]
    IN  /\ session' = [session EXCEPT ![s] = result]
        /\ session' # session
        /\ UNCHANGED <<otherVars, documents, requires_confirmation, document_versions,
                       document_events, event_visitors, visitor_confirmations,
                       upload>>

\* .from("document_types").select("id").eq("requires_confirmation", true)
RequiredTypeIds == {t \in DocTypes : requires_confirmation[t]}

\* the required documents if only active documents were looked at
RequiredDocsActive(e) ==
    {d \in Docs : /\ <<d, e>> \in document_events
                  /\ documents[d] \in RequiredTypeIds
                  /\ is_active[d]}

\* documents assigned to the event whose type is among the required types
RequiredDocs(e) ==
    {d \in Docs : /\ <<d, e>> \in document_events
                  /\ documents[d] \in RequiredTypeIds}

\* rows of visitor_confirmations of (v, e) whose version is in versionIds
ConfirmationsIn(confs, v, e, versionIds) ==
    {i \in 1..Len(confs) : /\ confs[i].visitor_id = v
                           /\ confs[i].event_id = e
                           /\ confs[i].document_version_id \in versionIds}

\* line 398 with > written for >=
AllConfirmedStrict(confs, v, e, currentVersions) ==
    Cardinality(ConfirmationsIn(confs, v, e, currentVersions))
        > Cardinality(currentVersions)

\* if (confirmations && confirmations.length >= currentVersions.length)
AllConfirmed(confs, v, e, currentVersions) ==
    Cardinality(ConfirmationsIn(confs, v, e, currentVersions))
        >= Cardinality(currentVersions)

\* currentVersions (lines 378..384): current versions of the required documents
RequiredCurrentVersions(e) ==
    UNION {CurrentVersionsOf(document_versions, d) : d \in RequiredDocs(e)}

\* checkAllDocumentsConfirmed: the event_visitors table after the call
checkAllDocumentsConfirmed(confs, ev, v, e) ==
    IF RequiredTypeIds = {} THEN ev
    ELSE IF {d \in Docs : <<d, e>> \in document_events} = {} THEN ev
    ELSE IF RequiredDocs(e) = {} THEN ev
    ELSE IF RequiredCurrentVersions(e) = {} THEN ev
    ELSE IF AllConfirmed(confs, v, e, RequiredCurrentVersions(e)) /\ ev[<<v, e>>] # NoRow
         THEN [ev EXCEPT ![<<v, e>>] = "confirmed"]
    ELSE ev

\* the insert of handleConfirmation followed by checkAllDocumentsConfirmed:
\* the two tables after a successful confirmation of (d, ver)
RecordConfirmation(confs, ev, v, e, d, ver) ==
    LET inserted == Append(confs, [visitor_id |-> v, event_id |-> e,
                                   document_id |-> d, document_version_id |-> ver])
    IN  [confs |-> inserted,
         ev |-> checkAllDocumentsConfirmed(inserted, ev, v, e)]

\* the confirm button rendered whatever the dialog knows of a confirmation
ConfirmOfferedAlways(s) ==
    /\ session[s].requiresConfirmation
    /\ session[s].documentUrl
    /\ session[s].error = "none"

\* the confirm button is rendered (line 518..623)
ConfirmOffered(s) ==
    /\ session[s].requiresConfirmation
    /\ session[s].documentUrl
    /\ session[s].error = "none"
    /\ ~session[s].confirmationSuccess
    /\ ~session[s].alreadyConfirmed

\* handleConfirmation
HandleConfirmation(s, insertOk) ==
    /\ ConfirmOffered(s)
    /\ Len(visitor_confirmations) < MaxConfs
    /\ IF \/ visitorId(s) = NoVisitor \/ eventId(s) = NoEvent
          \/ session[s].currentDocumentId = NoDoc
          \/ session[s].currentVersionId = NoVersion
       THEN /\ session' = [session EXCEPT ![s].error = "unableToSave"]
            /\ UNCHANGED <<visitor_confirmations, event_visitors>>
       ELSE IF ~insertOk \/ visitorId(s) \notin visitors
       THEN /\ session' = [session EXCEPT ![s].error = "insertFailed"]
            /\ UNCHANGED <<visitor_confirmations, event_visitors>>
       ELSE LET r == RecordConfirmation(visitor_confirmations, event_visitors,
                        visitorId(s), eventId(s),
                        session[s].currentDocumentId, session[s].currentVersionId)
            IN  /\ visitor_confirmations' = r.confs
                /\ event_visitors' = r.ev
                /\ session' = [session EXCEPT ![s].confirmationSuccess = TRUE,
                                              ![s].alreadyConfirmed = TRUE]
    /\ UNCHANGED <<otherVars, documents, requires_confirmation, document_versions,
                   document_events, upload>>

VisitorNext(S) ==
    \/ \E s \in S, t \in DocTypes : HandleCardClick(s, t)
    \/ \E s \in S : HandleConfirmation(s, TRUE)

\* -------------------------------- visitor: card indicators (read only)
\* fetchConfirmationStatus: the document types shown with a green check,
\* i.e. those with a confirmation of (v, e) at a current version
confirmedDocTypes(confs, v, e) ==
    LET docs == {d \in Docs : <<d, e>> \in document_events /\ documents[d] # NoDoc}
        versionIds == UNION {CurrentVersionsOf(document_versions, d) : d \in docs}
    IN  {documents[confs[i].document_id] :
            i \in {j \in ConfirmationsIn(confs, v, e, versionIds) :
                      confs[j].document_id \in docs}}

\* ------------------------------------------------ admin: dashboard (read)
\* The events the dashboard looks at: the next three by start date.  Every
\* modelled event starts today or later and there are no more than three.
UpcomingEvents == Events

\* the orders in which a select without ORDER BY can return n rows
ReturnOrders(n) ==
    {f \in [1..n -> 1..n] : \A i, j \in 1..n : i # j => f[i] # f[j]}

\* requiredDocsPerEvent[e] (lines 202..212)
requiredDocsPerEvent(e) ==
    {d \in Docs : /\ <<d, e>> \in document_events
                  /\ documents[d] # NoDoc
                  /\ documents[d] \in RequiredTypeIds}

\* currentVersionMap[d] (lines 222..225): the last current row returned
currentVersionMap(d) ==
    IF CurrentVersionsOf(document_versions, d) = {} THEN NoVersion
    ELSE Max(CurrentVersionsOf(document_versions, d))

\* confirmationMap[v-e][d].versionId (lines 236..246): rows are assigned in
\* the order returned, so the last row of (v, e, d) wins; NoVersion = no entry
confirmationMap(confs, order, v, e, d) ==
    LET hits == {k \in 1..Len(confs) :
                    /\ confs[order[k]].visitor_id = v
                    /\ confs[order[k]].event_id = e
                    /\ confs[order[k]].document_id = d}
    IN  IF hits = {} THEN NoVersion
        ELSE confs[order[Max(hits)]].document_version_id

\* the documents line 271 counts into confirmedCount
countedDocs(confs, order, v, e) ==
    {d \in requiredDocsPerEvent(e) : confirmationMap(confs, order, v, e, d) # NoVersion}

\* hasOutdated (lines 268..277)
hasOutdated(confs, order, v, e) ==
    \E d \in countedDocs(confs, order, v, e) :
        confirmationMap(confs, order, v, e, d) # currentVersionMap(d)

\* the row fetchConfirmations builds for an assigned (v, e)
ConfirmationRow(confs, order, v, e) ==
    [required_docs |-> Cardinality(requiredDocsPerEvent(e)),
     confirmed_docs |-> Cardinality(countedDocs(confs, order, v, e)),
     has_outdated |-> hasOutdated(confs, order, v, e)]

\* (v, e) is in the pending-confirmations list (lines 252..294)
Listed(confs, ev, order, v, e) ==
    /\ e \in UpcomingEvents
    /\ ev[<<v, e>>] # NoRow
    /\ requiredDocsPerEvent(e) # {}
    /\ \/ ConfirmationRow(confs, order, v, e).confirmed_docs
              < ConfirmationRow(confs, order, v, e).required_docs
       \/ ConfirmationRow(confs, order, v, e).has_outdated

\* ------------------------- handleUploadVersion, one request at a time
\* lines 279..294: rpc get_next_version_number, then the file upload
UploadStart(a, d) ==
    /\ upload[a].pc = "idle"
    /\ documents[d] # NoDoc
    /\ Len(document_versions) + Cardinality({b \in Admins : upload[b].pc # "idle"})
          < MaxVersions
    /\ upload' = [upload EXCEPT ![a] =
          [pc |-> "numbered", doc |-> d,
           nextVersion |-> get_next_version_number(document_versions, d)]]
    /\ UNCHANGED <<otherVars, documents, requires_confirmation, document_versions,
                   document_events, event_visitors, visitor_confirmations, session>>

\* lines 296..300: set all existing versions to not current
UploadClear(a) ==
    /\ upload[a].pc = "numbered"
    /\ document_versions' = ClearCurrent(document_versions, upload[a].doc)
    /\ upload' = [upload EXCEPT ![a].pc = "cleared"]
    /\ UNCHANGED <<otherVars, documents, requires_confirmation, document_events,
                   event_visitors, visitor_confirmations, session>>

\* lines 302..317: insert the new version as current
UploadInsert(a, versionOk) ==
    /\ upload[a].pc = "cleared"
    /\ document_versions' =
          IF versionOk
          THEN InsertVersion(document_versions, upload[a].doc, upload[a].nextVersion)
          ELSE document_versions
    /\ upload' = [upload EXCEPT ![a] = idleUpload]
    /\ UNCHANGED <<otherVars, documents, requires_confirmation, document_events,
                   event_visitors, visitor_confirmations, session>>

UploadSteps(A) ==
    \/ \E a \in A, d \in Docs : UploadStart(a, d)
    \/ \E a \in A : UploadClear(a)
    \/ \E a \in A : UploadInsert(a, TRUE)

\* One signed-in browser session, handlers run one after another, every
\* storage request succeeds.
Next == AdminNext \/ VisitorNext({"s1"})

Spec == Init /\ [][Next]_vars

\* A database in which two documents of two confirmation-requiring types
\* have their first version and are assigned to the visitor's event.
InitAssigned ==
    /\ documents = [d \in Docs |-> IF d = "d1" THEN "t1" ELSE "t2"]
    /\ requires_confirmation = [t \in DocTypes |-> TRUE]
    /\ document_versions =
          <<[document_id |-> "d1", version_number |-> 1, is_current |-> TRUE],
            [document_id |-> "d2", version_number |-> 1, is_current |-> TRUE]>>
    /\ document_events = {<<"d1", "e1">>, <<"d2", "e1">>}
    /\ event_visitors = [p \in Visitors \X Events |-> "invited"]
    /\ visitor_confirmations = <<>>
    /\ session = [s \in Sessions |-> closedDialog]
    /\ upload = [a \in Admins |-> idleUpload]
    /\ InitPages

\* The same visitor signed in from two browser tabs.
NextTabs ==
    \/ VisitorNext(Sessions)
    \/ \E d \in Docs : HandleUploadVersion(d, TRUE, TRUE)
    \/ \E id \in VersionIds : SetCurrentVersion(id)

SpecTabs == InitAssigned /\ [][NextTabs]_vars

\* A database in which one document has its first version and is assigned.
InitOneDocument ==
    /\ documents = [d \in Docs |-> IF d = "d1" THEN "t1" ELSE NoDoc]
    /\ requires_confirmation = [t \in DocTypes |-> TRUE]
    /\ document_versions =
          <<[document_id |-> "d1", version_number |-> 1, is_current |-> TRUE]>>
    /\ document_events = {<<"d1", "e1">>}
    /\ event_visitors = [p \in Visitors \X Events |-> "invited"]
    /\ visitor_confirmations = <<>>
    /\ session = [s \in Sessions |-> closedDialog]
    /\ upload = [a \in Admins |-> idleUpload]
    /\ InitPages

\* Two admins uploading versions request by request, a visitor reading.
NextConc ==
    \/ UploadSteps(Admins)
    \/ \E d \in Docs, S \in SUBSET Events : HandleAssignEvents(d, S)
    \/ \E t \in DocTypes : HandleCardClick("s1", t)

SpecConc == InitOneDocument /\ [][NextConc]_vars

\* One admin doing one thing at a time, the upload request by request, and
\* a visitor reading in between.
NextReader ==
    \/ UploadSteps({"a1"})
    \/ \E id \in VersionIds : upload["a1"].pc = "idle" /\ SetCurrentVersion(id)
    \/ \E d \in Docs, t \in DocTypes :
          upload["a1"].pc = "idle" /\ HandleSaveDocumentNew(d, t, TRUE, TRUE)
    \/ \E d \in Docs, S \in SUBSET Events :
          upload["a1"].pc = "idle" /\ HandleAssignEvents(d, S)
    \/ \E t \in DocTypes : HandleCardClick("s1", t)

SpecReader == InitOneDocument /\ [][NextReader]_vars

\* Handlers run one after another; storage requests may fail.
NextFail ==
    \/ \E d \in Docs, t \in DocTypes, uploadOk, versionOk \in BOOLEAN :
          HandleSaveDocumentNew(d, t, uploadOk, versionOk)
    \/ \E d \in Docs, uploadOk, versionOk \in BOOLEAN :
          HandleUploadVersion(d, uploadOk, versionOk)
    \/ \E id \in VersionIds : SetCurrentVersion(id)
    \/ \E d \in Docs, S \in SUBSET Events : HandleAssignEvents(d, S)
    \/ \E t \in DocTypes : HandleCardClick("s1", t)
    \/ \E insertOk \in BOOLEAN : HandleConfirmation("s1", insertOk)

SpecFail == Init /\ [][NextFail]_vars

\* ------------------------------------- visitor: landing page, page load
\* Home: the visitor linked to the profile and, through the visitor's
\* event_visitors rows, the next event (one event is modelled)
nextEvent(ev, v) ==
    IF v = NoVisitor \/ {e \in Events : ev[<<v, e>>] # NoRow} = {} THEN NoEvent
    ELSE CHOOSE e \in Events : ev[<<v, e>>] # NoRow

\* a page load of session s: Home hands fresh props to a fresh Features
LoadPage(s) ==
    LET visitor == IF home[s].visitorId \in visitors THEN home[s].visitorId
                   ELSE NoVisitor
    IN  /\ home' = [home EXCEPT ![s] =
              [visitorId |-> visitor, eventId |-> nextEvent(event_visitors, visitor)]]
        /\ session' = [session EXCEPT ![s] = closedDialog]
        /\ UNCHANGED <<documents, requires_confirmation, document_versions,
                       document_events, event_visitors, visitor_confirmations,
                       upload, visitors, importVars, reportVars, cnVars,
                       adminVars>>

\* fetchConfirmationStatus: the two sets the cards are drawn from
fetchConfirmationStatus(s) ==
    LET docs == {d \in Docs : <<d, eventId(s)>> \in document_events
                              /\ documents[d] # NoDoc}
    IN  IF eventId(s) = NoEvent \/ visitorId(s) = NoVisitor \/ docs = {}
        THEN [requiresConfirmationDocTypes |-> {}, confirmedDocTypes |-> {}]
        ELSE [requiresConfirmationDocTypes |->
                 {documents[d] : d \in {x \in docs : requires_confirmation[documents[x]]}},
              confirmedDocTypes |->
                 confirmedDocTypes(visitor_confirmations, visitorId(s), eventId(s))]

\* ------------------------------------------------- admin: events page
\* handleSaveAssignments keeping the status of the visitors who stay
HandleSaveAssignmentsKeepingStatus(e, selected, deleteOk, insertOk) ==
    /\ selected \subseteq visitors
    /\ event_visitors' =
          IF ~deleteOk THEN event_visitors
          ELSE [p \in Visitors \X Events |->
                   IF p[2] # e THEN event_visitors[p]
                   ELSE IF insertOk /\ p[1] \in selected /\ event_visitors[p] # NoRow
                        THEN event_visitors[p]
                   ELSE IF insertOk /\ p[1] \in selected THEN "invited"
                   ELSE NoRow]
    /\ UNCHANGED <<documents, requires_confirmation, document_versions,
                   document_events, visitor_confirmations, session, upload,
                   otherVars>>

\* handleSaveAssignments of the events page: delete the event's rows, insert
\* the selected visitors as "invited"; selected is the dialog's set of ticked
\* visitors
HandleSaveAssignments(e, selected, deleteOk, insertOk) ==
    /\ selected \subseteq visitors
    /\ event_visitors' =
          IF ~deleteOk THEN event_visitors
          ELSE [p \in Visitors \X Events |->
                   IF p[2] # e THEN event_visitors[p]
                   ELSE IF insertOk /\ p[1] \in selected THEN "invited"
                   ELSE NoRow]
    /\ UNCHANGED <<documents, requires_confirmation, document_versions,
                   document_events, visitor_confirmations, session, upload,
                   otherVars>>

\* ----------------------------------------------- admin: visitors page
\* the rows of tbl that are left when the visitors in S are deleted, with
\* the condition on the visitor left out
CascadeAll(tbl, S) == <<>>

\* the rows of tbl that are left when the visitors in S are deleted
Cascade(tbl, S) ==
    LET kept(r) == r.visitor_id \notin S
    IN  SelectSeq(tbl, kept)

\* handleDeleteSelected: delete the selected visitors; their event
\* assignments and document confirmations go with them
HandleDeleteSelected(selected, deleteOk) ==
    /\ selected # {}
    /\ selected \subseteq visitors
    /\ IF deleteOk
       THEN /\ visitors' = visitors \ selected
            /\ event_visitors' =
                  [p \in Visitors \X Events |->
                      IF p[1] \in selected THEN NoRow ELSE event_visitors[p]]
            /\ visitor_confirmations' = Cascade(visitor_confirmations, selected)
            /\ selectedVisitorIds' = {}
       ELSE UNCHANGED <<visitors, event_visitors, visitor_confirmations,
                        selectedVisitorIds>>
    /\ UNCHANGED <<documents, requires_confirmation, document_versions,
                   document_events, session, upload, home, importVars,
                   reportVars, cnVars, is_active, visitorSearch>>

\* A database with one confirmation-requiring document assigned to the
\* event, and two visitors, each signed in on one session.
InitTwoVisitors ==
    /\ documents = [d \in Docs |-> IF d = "d1" THEN "t1" ELSE NoDoc]
    /\ requires_confirmation = [t \in DocTypes |-> TRUE]
    /\ document_versions =
          <<[document_id |-> "d1", version_number |-> 1, is_current |-> TRUE]>>
    /\ document_events = {<<"d1", "e1">>}
    /\ event_visitors = [p \in Visitors \X Events |-> "invited"]
    /\ visitor_confirmations = <<>>
    /\ session = [s \in Sessions |-> closedDialog]
    /\ upload = [a \in Admins |-> idleUpload]
    /\ is_active = [d \in Docs |-> TRUE]
    /\ visitorSearch = <<>>
    /\ selectedVisitorIds = {}
    /\ visitors = Visitors
    /\ home = [s \in Sessions |->
                  [visitorId |-> IF s = "s1" THEN "v1" ELSE "v2", eventId |-> "e1"]]
    /\ worksheet = <<>>
    /\ uploadResult = NoResult
    /\ newVisitors = <<>>
    /\ newEventVisitors = <<>>
    /\ confirmations = <<>>
    /\ search = <<>>
    /\ selectedRows = {}
    /\ reminded = <<>>
    /\ inputs = <<>>
    /\ className = <<>>

\* Two visitors using the landing page while an admin changes assignments,
\* deletes visitors and uploads versions.
NextVisitors ==
    \/ \E s \in Sessions, t \in DocTypes : HandleCardClick(s, t)
    \/ \E s \in Sessions : HandleConfirmation(s, TRUE)
    \/ \E s \in Sessions : LoadPage(s)
    \/ \E e \in Events, S \in SUBSET Visitors :
          HandleSaveAssignments(e, S, TRUE, TRUE)
    \/ \E S \in SUBSET Visitors, deleteOk \in BOOLEAN : HandleDeleteSelected(S, deleteOk)
    \/ \E d \in Docs : HandleUploadVersion(d, TRUE, TRUE)

SpecVisitors == InitTwoVisitors /\ [][NextVisitors]_vars

\* ------------------------------------- admin: visitors page, bulk import
\* Text is a sequence of characters; the month and the year of a date count
\* as one character each.
toLowerCase(text) ==
    [i \in 1..Len(text) |->
        CASE text[i] = "A" -> "a" [] text[i] = "B" -> "b" [] text[i] = "C" -> "c"
          [] text[i] = "D" -> "d" [] text[i] = "G" -> "g" [] text[i] = "L" -> "l"
          [] text[i] = "JAN" -> "jan" [] text[i] = "Jan" -> "jan"
          [] OTHER -> text[i]]

\* the organizations and events in the database when the page was loaded
companies == {[id |-> "c1", name |-> <<"A", "b">>]}

allEvents == {[id |-> "e1", name |-> <<"G">>, start_date |-> [y |-> "2027", m |-> 1, d |-> "5"]]}

\* formatDate: toLocaleDateString("en-US", short month, numeric day and year)
formatDate(date) ==
    <<(<<"Jan", "Feb", "Mar", "Apr", "May", "Jun", "Jul", "Aug", "Sep", "Oct",
         "Nov", "Dec">>)[date.m], " ", date.d, ",", " ", date.y>>

\* `${e.name} (${formatDate(e.start_date)})`
eventLabel(e) == e.name \o <<" ", "(">> \o formatDate(e.start_date) \o <<")">>

\* orgMap.get(name), eventMap.get(label): the id, "none" when absent
orgMap(key) ==
    IF \E c \in companies : toLowerCase(c.name) = key
    THEN (CHOOSE c \in companies : toLowerCase(c.name) = key).id
    ELSE "none"

eventMap(key) ==
    IF \E e \in allEvents : toLowerCase(eventLabel(e)) = key
    THEN (CHOOSE e \in allEvents : toLowerCase(eventLabel(e)) = key).id
    ELSE NoEvent

\* the test with the end anchor of the pattern left out
phoneTestUnanchored(phone) ==
    /\ Len(phone) >= 12
    /\ \A i \in 1..12 : phone[i] = (IF i \in {4, 8} THEN "-" ELSE "0")

\* /^\d{3}-\d{3}-\d{4}$/.test(phone); "0" stands for any digit
phoneTest(phone) ==
    /\ Len(phone) = 12
    /\ \A i \in 1..12 : phone[i] = (IF i \in {4, 8} THEN "-" ELSE "0")

\* the checks of lines 625..680 with the phone format checked before the
\* lookups
validatePhoneFirst(r) ==
    LET missingFields ==
            (IF r.firstName = <<>> THEN <<"First Name">> ELSE <<>>)
            \o (IF r.lastName = <<>> THEN <<"Last Name">> ELSE <<>>)
            \o (IF r.email = <<>> THEN <<"Email">> ELSE <<>>)
            \o (IF r.orgName = <<>> THEN <<"Organization">> ELSE <<>>)
            \o (IF r.eventName = <<>> THEN <<"Event">> ELSE <<>>)
    IN  IF missingFields # <<>> THEN [kind |-> "missing", detail |-> missingFields]
        ELSE IF r.phone # <<>> /\ ~phoneTest(r.phone)
             THEN [kind |-> "phone", detail |-> r.phone]
        ELSE IF orgMap(toLowerCase(r.orgName)) = "none"
             THEN [kind |-> "organization", detail |-> r.orgName]
        ELSE IF eventMap(toLowerCase(r.eventName)) = NoEvent
             THEN [kind |-> "event", detail |-> r.eventName]
        ELSE [kind |-> "none", detail |-> <<>>]

\* the checks of lines 625..680 in their order: the reason of the first one
\* that fails, kind "none" when the row passes
validate(r) ==
    LET missingFields ==
            (IF r.firstName = <<>> THEN <<"First Name">> ELSE <<>>)
            \o (IF r.lastName = <<>> THEN <<"Last Name">> ELSE <<>>)
            \o (IF r.email = <<>> THEN <<"Email">> ELSE <<>>)
            \o (IF r.orgName = <<>> THEN <<"Organization">> ELSE <<>>)
            \o (IF r.eventName = <<>> THEN <<"Event">> ELSE <<>>)
    IN  IF missingFields # <<>> THEN [kind |-> "missing", detail |-> missingFields]
        ELSE IF orgMap(toLowerCase(r.orgName)) = "none"
             THEN [kind |-> "organization", detail |-> r.orgName]
        ELSE IF eventMap(toLowerCase(r.eventName)) = NoEvent
             THEN [kind |-> "event", detail |-> r.eventName]
        ELSE IF r.phone # <<>> /\ ~phoneTest(r.phone)
             THEN [kind |-> "phone", detail |-> r.phone]
        ELSE [kind |-> "none", detail |-> <<>>]

\* an entry of the error list
UploadError(rowNum, r, reason) ==
    [row |-> rowNum,
     firstName |-> IF r.firstName = <<>> THEN <<"(empty)">> ELSE r.firstName,
     lastName |-> IF r.lastName = <<>> THEN <<"(empty)">> ELSE r.lastName,
     reason |-> reason]

\* lines 682..727 with no visitor left behind when the assignment fails
storeWithoutVisitor(acc, rowNum, r, db) ==
    LET visitor == [row |-> rowNum, first_name |-> r.firstName,
                    last_name |-> r.lastName, email |-> r.email, phone |-> r.phone,
                    company_id |-> orgMap(toLowerCase(r.orgName))]
        link == [row |-> rowNum, event_id |-> eventMap(toLowerCase(r.eventName)),
                 rsvp_status |-> "invited"]
    IN  IF db = "visitorError"
        THEN [acc EXCEPT !.errors = Append(@, UploadError(rowNum, r,
                                      [kind |-> "database", detail |-> <<>>]))]
        ELSE IF db = "eventError"
        THEN [acc EXCEPT !.errors = Append(@, UploadError(rowNum, r,
                                      [kind |-> "assignment", detail |-> <<>>]))]
        ELSE [acc EXCEPT !.visitors = Append(@, visitor),
                         !.eventVisitors = Append(@, link),
                         !.success = @ + 1]

\* lines 682..727 with the continue of line 721 left out
storeCounted(acc, rowNum, r, db) ==
    LET visitor == [row |-> rowNum, first_name |-> r.firstName,
                    last_name |-> r.lastName, email |-> r.email, phone |-> r.phone,
                    company_id |-> orgMap(toLowerCase(r.orgName))]
        link == [row |-> rowNum, event_id |-> eventMap(toLowerCase(r.eventName)),
                 rsvp_status |-> "invited"]
    IN  IF db = "visitorError"
        THEN [acc EXCEPT !.errors = Append(@, UploadError(rowNum, r,
                                      [kind |-> "database", detail |-> <<>>]))]
        ELSE IF db = "eventError"
        THEN [acc EXCEPT !.visitors = Append(@, visitor),
                         !.errors = Append(@, UploadError(rowNum, r,
                                      [kind |-> "assignment", detail |-> <<>>])),
                         !.success = @ + 1]
        ELSE [acc EXCEPT !.visitors = Append(@, visitor),
                         !.eventVisitors = Append(@, link),
                         !.success = @ + 1]

\* lines 682..727: insert the visitor, then its event_visitors row; db is
\* what the database answers ("ok", "visitorError", "eventError").  The row
\* field of an inserted record notes the sheet row it came from.
store(acc, rowNum, r, db) ==
    LET visitor == [row |-> rowNum, first_name |-> r.firstName,
                    last_name |-> r.lastName, email |-> r.email, phone |-> r.phone,
                    company_id |-> orgMap(toLowerCase(r.orgName))]
        link == [row |-> rowNum, event_id |-> eventMap(toLowerCase(r.eventName)),
                 rsvp_status |-> "invited"]
    IN  IF db = "visitorError"
        THEN [acc EXCEPT !.errors = Append(@, UploadError(rowNum, r,
                                      [kind |-> "database", detail |-> <<>>]))]
        ELSE IF db = "eventError"
        THEN [acc EXCEPT !.visitors = Append(@, visitor),
                         !.errors = Append(@, UploadError(rowNum, r,
                                      [kind |-> "assignment", detail |-> <<>>]))]
        ELSE [acc EXCEPT !.visitors = Append(@, visitor),
                         !.eventVisitors = Append(@, link),
                         !.success = @ + 1]

\* a row whose six cells are all empty
isEmptyRow(r) ==
    /\ r.firstName = <<>> /\ r.lastName = <<>> /\ r.email = <<>>
    /\ r.phone = <<>> /\ r.orgName = <<>> /\ r.eventName = <<>>

\* the loop of lines 612..730 from data row i on; data row i is sheet row
\* i + 1
RECURSIVE processRows(_, _, _, _)
processRows(rows, db, i, acc) ==
    IF i > Len(rows) THEN acc
    ELSE LET r == rows[i]
             rowNum == i + 1
             counted == [acc EXCEPT !.total = @ + 1]
             reason == validate(r)
         IN  processRows(rows, db, i + 1,
                IF isEmptyRow(r) THEN acc
                ELSE IF reason.kind # "none"
                     THEN [counted EXCEPT !.errors =
                              Append(@, UploadError(rowNum, r, reason))]
                ELSE store(counted, rowNum, r, db[i]))

\* the result of a file that cannot be read, has no "Visitors" worksheet, or
\* has other column headers
formatError(file) ==
    [total |-> 0, success |-> 0,
     errors |-> <<[row |-> 0, firstName |-> <<>>, lastName |-> <<>>,
                   reason |-> [kind |-> file, detail |-> <<>>]]>>]

\* the cell texts the model lets a sheet hold
Cell(firstName, lastName, email, phone, orgName, eventName) ==
    [firstName |-> firstName, lastName |-> lastName, email |-> email,
     phone |-> phone, orgName |-> orgName, eventName |-> eventName]

Phone == <<"0", "0", "0", "-", "0", "0", "0", "-", "0", "0", "0", "0">>
Label == <<"G", " ", "(", "Jan", " ", "5", ",", " ", "2027", ")">>
LABEL == <<"g", " ", "(", "JAN", " ", "5", ",", " ", "2027", ")">>

GoodRows ==
    {Cell(<<"A">>, <<"L">>, <<"@">>, <<>>, <<"A", "b">>, Label),
     Cell(<<"A">>, <<"L">>, <<"@">>, Phone, <<"A", "B">>, LABEL)}

BadPhoneRows ==
    {Cell(<<"A">>, <<"L">>, <<"@">>, <<"0", "0", "0", "0">>, <<"A", "b">>, Label),
     Cell(<<"A">>, <<"L">>, <<"@">>, Phone \o <<"0">>, <<"a", "b">>, Label)}

OtherRows ==
    {Cell(<<>>, <<>>, <<>>, <<>>, <<>>, <<>>),
     Cell(<<>>, <<"L">>, <<"@">>, Phone, <<"A", "b">>, Label),
     Cell(<<"A">>, <<"L">>, <<>>, <<"0">>, <<>>, <<"D">>),
     Cell(<<"A">>, <<"L">>, <<"@">>, <<>>, <<"C">>, <<"D">>),
     Cell(<<"A">>, <<"L">>, <<"@">>, <<"0">>, <<"A", "b">>, <<"G">>)}

SheetRows == GoodRows \cup BadPhoneRows \cup OtherRows

Sheets == UNION {[1..n -> SheetRows] : n \in 0..MaxRows}

\* handleFileUpload: file says whether the workbook can be read and has the
\* worksheet and the headers, rows are its data rows, db[i] is the answer of
\* the database to the inserts of row i
HandleFileUpload(file, rows, db) ==
    /\ worksheet = <<>>
    /\ uploadResult = NoResult
    /\ \A i \in 1..Len(rows) : db[i] # "ok" => rows[i] \in GoodRows
    /\ LET done == processRows(rows, db, 1,
                      [total |-> 0, success |-> 0, errors |-> <<>>,
                       visitors |-> <<>>, eventVisitors |-> <<>>])
       IN  IF file # "ok"
           THEN /\ worksheet' = <<>>
                /\ uploadResult' = formatError(file)
                /\ UNCHANGED <<newVisitors, newEventVisitors>>
           ELSE /\ worksheet' = rows
                /\ uploadResult' = [total |-> done.total, success |-> done.success,
                                    errors |-> done.errors]
                /\ newVisitors' = done.visitors
                /\ newEventVisitors' = done.eventVisitors
    /\ UNCHANGED <<documents, requires_confirmation, document_versions,
                   document_events, event_visitors, visitor_confirmations,
                   session, upload, visitorVars, reportVars, cnVars,
                   adminVars>>

\* The first import of a session, of a well-formed workbook; the database
\* accepts every insert.
NextImport ==
    /\ worksheet = <<>>
    /\ uploadResult = NoResult
    /\ \E rows \in Sheets :
          HandleFileUpload("ok", rows, [i \in 1..Len(rows) |-> "ok"])

SpecImport == InitAssigned /\ [][NextImport]_vars

\* The first import of a session; the workbook may be unusable and inserts
\* may fail.
NextImportFail ==
    /\ worksheet = <<>>
    /\ uploadResult = NoResult
    /\ \E file \in {"ok", "unreadable", "noWorksheet", "badHeaders"} :
          \E rows \in (IF file = "ok" THEN Sheets ELSE {<<>>}) :
             \E db \in [1..Len(rows) -> {"ok", "visitorError", "eventError"}] :
                HandleFileUpload(file, rows, db)

SpecImportFail == InitAssigned /\ [][NextImportFail]_vars

\* ------------------------------------ admin: dashboard, reminder emails
\* The events the pending list can show rows of, and what a row shows of its
\* visitor and its event.
ReportEvents == {"e1", "e2"}

idText(id) ==
    CASE id = "v1" -> <<"v", "1">> [] id = "v2" -> <<"v", "2">>
      [] id = "e1" -> <<"e", "1">> [] id = "e2" -> <<"e", "2">>

ReportRow(v, e) ==
    [visitor_id |-> v, event_id |-> e,
     event_name |-> IF e = "e1" THEN <<"G">> ELSE <<"C">>,
     organization_name |-> <<"D">>,
     first_name |-> IF v = "v1" THEN <<"A">> ELSE <<"B">>,
     last_name |-> <<"L">>]

\* the rows in the order fetchConfirmations sorts them: by event, then by
\* first name
AllReportRows ==
    <<ReportRow("v1", "e1"), ReportRow("v2", "e1"),
      ReportRow("v1", "e2"), ReportRow("v2", "e2")>>

\* the pending lists a fetch can produce: the rows of any set of
\* (visitor, event) pairs, sorted
PendingLists ==
    {LET in(r) == <<r.visitor_id, r.event_id>> \in P
     IN  SelectSeq(AllReportRows, in) : P \in SUBSET (Visitors \X ReportEvents)}

SearchTerms == {<<>>, <<"a">>, <<"B">>, <<"g">>, <<"c">>, <<"z">>}

\* text.includes(term)
includes(text, term) ==
    \E i \in 1..(Len(text) + 1) :
        /\ i + Len(term) - 1 <= Len(text)
        /\ SubSeq(text, i, i + Len(term) - 1) = term

\* filteredConfirmations for a list and a search term
filtered(list, term) ==
    LET shown(row) ==
            \/ includes(toLowerCase(row.event_name), toLowerCase(term))
            \/ includes(toLowerCase(row.organization_name), toLowerCase(term))
            \/ includes(toLowerCase(row.first_name), toLowerCase(term))
            \/ includes(toLowerCase(row.last_name), toLowerCase(term))
    IN  IF term = <<>> THEN list ELSE SelectSeq(list, shown)

filteredConfirmations == filtered(confirmations, search)

\* getRowKey: `${row.visitor_id}-${row.event_id}`
getRowKey(row) == idText(row.visitor_id) \o <<"-">> \o idText(row.event_id)

\* the values of a sequence
Range(seq) == {seq[i] : i \in 1..Len(seq)}

\* the mount of the dashboard page: fetchConfirmations fills the list
LoadReports(list) ==
    /\ confirmations' = list
    /\ search' = <<>>
    /\ selectedRows' = {}
    /\ UNCHANGED <<documents, requires_confirmation, document_versions,
                   document_events, event_visitors, visitor_confirmations,
                   session, upload, visitorVars, importVars, reminded, cnVars,
                   adminVars>>

\* typing into the search box; the effect of lines 341..343 clears the
\* selection when the number of rows shown changes
SetSearch(term) ==
    /\ term # search
    /\ search' = term
    /\ selectedRows' =
          IF Len(filtered(confirmations, term)) # Len(filteredConfirmations)
          THEN {} ELSE selectedRows
    /\ UNCHANGED <<documents, requires_confirmation, document_versions,
                   document_events, event_visitors, visitor_confirmations,
                   session, upload, visitorVars, importVars, confirmations,
                   reminded, cnVars, adminVars>>

\* toggleRowSelection, on the checkbox of a row that is shown
ToggleRowSelection(i) ==
    /\ i \in 1..Len(filteredConfirmations)
    /\ LET key == getRowKey(filteredConfirmations[i])
       IN  selectedRows' = IF key \in selectedRows THEN selectedRows \ {key}
                           ELSE selectedRows \cup {key}
    /\ UNCHANGED <<documents, requires_confirmation, document_versions,
                   document_events, event_visitors, visitor_confirmations,
                   session, upload, visitorVars, importVars, confirmations,
                   search, reminded, cnVars, adminVars>>

\* toggleSelectAll
ToggleSelectAll ==
    /\ selectedRows' =
          IF Cardinality(selectedRows) = Len(filteredConfirmations) THEN {}
          ELSE {getRowKey(filteredConfirmations[i]) :
                   i \in 1..Len(filteredConfirmations)}
    /\ selectedRows' # selectedRows
    /\ UNCHANGED <<documents, requires_confirmation, document_versions,
                   document_events, event_visitors, visitor_confirmations,
                   session, upload, visitorVars, importVars, confirmations,
                   search, reminded, cnVars, adminVars>>

\* getSelectedVisitors reading the whole list instead of the rows shown
getSelectedVisitorsOfAll ==
    LET ticked(row) == getRowKey(row) \in selectedRows
    IN  SelectSeq(confirmations, ticked)

\* getSelectedVisitors
getSelectedVisitors ==
    LET ticked(row) == getRowKey(row) \in selectedRows
    IN  SelectSeq(filteredConfirmations, ticked)

\* handleSendEmails: the visitors of the selected rows are read from the
\* visitors table, in whatever order it returns them, and handed to the
\* send-reminder-emails function
HandleSendEmails(sendOk) ==
    LET selectedVisitors == getSelectedVisitors
        visitorIds == {selectedVisitors[i].visitor_id : i \in 1..Len(selectedVisitors)}
        found == visitorIds \cap visitors
    IN  /\ Len(selectedVisitors) > 0
        /\ found # {}
        /\ Len(reminded) < MaxSends
        /\ \E body \in [1..Cardinality(found) -> found] :
              /\ Range(body) = found
              /\ reminded' = Append(reminded, body)
        /\ selectedRows' = IF sendOk THEN {} ELSE selectedRows
        /\ UNCHANGED <<documents, requires_confirmation, document_versions,
                       document_events, event_visitors, visitor_confirmations,
                       session, upload, visitorVars, importVars, confirmations,
                       search, cnVars, adminVars>>

\* An admin on the dashboard: loading the page, searching, ticking rows and
\* sending reminders.
NextReminder ==
    \/ \E list \in PendingLists : LoadReports(list)
    \/ \E term \in SearchTerms : SetSearch(term)
    \/ \E i \in 1..Len(AllReportRows) : ToggleRowSelection(i)
    \/ ToggleSelectAll
    \/ \E sendOk \in BOOLEAN : HandleSendEmails(sendOk)

SpecReminder == InitAssigned /\ [][NextReminder]_vars

\* ------------------------- admin: visitors page, search and selection
\* what the list shows of a visitor
VisitorRow(v) ==
    [id |-> v,
     first_name |-> IF v = "v1" THEN <<"A">> ELSE <<"B">>,
     last_name |-> <<"L">>,
     email |-> <<"@">>,
     phone |-> <<>>,
     company |-> <<"D">>]

\* filteredVisitors: the visitors the list shows under a search term
filteredVisitors ==
    LET term == toLowerCase(visitorSearch)
        fullName(r) == toLowerCase(r.first_name \o <<" ">> \o r.last_name)
        shown(r) ==
            \/ includes(fullName(r), term)
            \/ includes(toLowerCase(r.first_name), term)
            \/ includes(toLowerCase(r.last_name), term)
            \/ includes(toLowerCase(r.email), term)
            \/ includes(toLowerCase(r.phone), term)
            \/ includes(toLowerCase(r.company), term)
    IN  {v \in visitors : shown(VisitorRow(v))}

\* typing into the search box of the visitors page
SetVisitorSearch(term) ==
    /\ term # visitorSearch
    /\ visitorSearch' = term
    /\ UNCHANGED <<documents, requires_confirmation, document_versions,
                   document_events, event_visitors, visitor_confirmations,
                   session, upload, visitorVars, importVars, reportVars, cnVars,
                   is_active, selectedVisitorIds>>

\* toggleVisitorSelection, on the checkbox of a visitor that is shown
ToggleVisitorSelection(v) ==
    /\ v \in filteredVisitors
    /\ selectedVisitorIds' =
          IF v \in selectedVisitorIds THEN selectedVisitorIds \ {v}
          ELSE selectedVisitorIds \cup {v}
    /\ UNCHANGED <<documents, requires_confirmation, document_versions,
                   document_events, event_visitors, visitor_confirmations,
                   session, upload, visitorVars, importVars, reportVars, cnVars,
                   is_active, visitorSearch>>

\* toggleSelectAll of the visitors page, on the checkbox of the list header
ToggleSelectAllVisitors ==
    /\ filteredVisitors # {}
    /\ selectedVisitorIds' =
          IF Cardinality(selectedVisitorIds) = Cardinality(filteredVisitors) THEN {}
          ELSE filteredVisitors
    /\ selectedVisitorIds' # selectedVisitorIds
    /\ UNCHANGED <<documents, requires_confirmation, document_versions,
                   document_events, event_visitors, visitor_confirmations,
                   session, upload, visitorVars, importVars, reportVars, cnVars,
                   is_active, visitorSearch>>

\* handleSaveAssignments of the visitors page: delete the visitor's rows,
\* insert the selected events as "invited"
HandleSaveVisitorAssignments(v, selectedEventIds, deleteOk, insertOk) ==
    /\ v \in visitors
    /\ event_visitors' =
          IF ~deleteOk THEN event_visitors
          ELSE [p \in Visitors \X Events |->
                   IF p[1] # v THEN event_visitors[p]
                   ELSE IF insertOk /\ p[2] \in selectedEventIds THEN "invited"
                   ELSE NoRow]
    /\ UNCHANGED <<documents, requires_confirmation, document_versions,
                   document_events, visitor_confirmations, session, upload,
                   otherVars>>

\* An admin on the visitors page and on the events page: searching, ticking
\* visitors, deleting the ticked ones and saving assignments, while visitor
\* v1 reads and confirms documents; requests to the database may fail.
NextAdmin ==
    \/ \E term \in SearchTerms : SetVisitorSearch(term)
    \/ \E v \in Visitors : ToggleVisitorSelection(v)
    \/ ToggleSelectAllVisitors
    \/ \E deleteOk \in BOOLEAN : HandleDeleteSelected(selectedVisitorIds, deleteOk)
    \/ \E v \in Visitors, E \in SUBSET Events, deleteOk, insertOk \in BOOLEAN :
          HandleSaveVisitorAssignments(v, E, deleteOk, insertOk)
    \/ \E e \in Events, S \in SUBSET Visitors, deleteOk, insertOk \in BOOLEAN :
          HandleSaveAssignments(e, S, deleteOk, insertOk)
    \/ \E t \in DocTypes : HandleCardClick("s1", t)
    \/ HandleConfirmation("s1", TRUE)

SpecAdmin == InitTwoVisitors /\ [][NextAdmin]_vars

\* ------------------------------------ admin: documents page, is_active
\* toggleActive: update({ is_active: !doc.is_active }).eq("id", doc.id)
ToggleActive(d) ==
    /\ documents[d] # NoDoc
    /\ is_active' = [is_active EXCEPT ![d] = ~is_active[d]]
    /\ UNCHANGED <<documents, requires_confirmation, document_versions,
                   document_events, event_visitors, visitor_confirmations,
                   session, upload, visitorVars, importVars, reportVars, cnVars,
                   visitorSearch, selectedVisitorIds>>

\* An admin switching documents between active and inactive, assigning them
\* to the event and uploading versions while visitor v1 reads and confirms.
NextActive ==
    \/ \E d \in Docs : ToggleActive(d)
    \/ \E d \in Docs, S \in SUBSET Events : HandleAssignEvents(d, S)
    \/ \E d \in Docs : HandleUploadVersion(d, TRUE, TRUE)
    \/ VisitorNext({"s1"})

SpecActive == InitAssigned /\ [][NextActive]_vars

\* ------------------------------------------------------- lib/utils: cn
\* An argument of cn: a string, or one of the values a condition leaves.
Str(value) == [kind |-> "string", value |-> value]

ClassValues ==
    {Str("foo"), Str("bar"), Str("px-4"), Str("px-2"), Str(""),
     [kind |-> "false", value |-> ""], [kind |-> "undefined", value |-> ""],
     [kind |-> "null", value |-> ""]}

ArgLists == UNION {[1..n -> ClassValues] : n \in 0..MaxArgs}

\* clsx keeping null and undefined as words
clsxKeepingNull(args) ==
    LET word(a) == IF a.kind = "string" THEN a.value ELSE a.kind
        kept(a) == word(a) # "" /\ a.kind # "false"
        named == SelectSeq(args, kept)
    IN  [i \in 1..Len(named) |-> word(named[i])]

\* clsx: the non-empty strings among the arguments, in order
clsx(args) ==
    LET kept(a) == a.kind = "string" /\ a.value # ""
        named == SelectSeq(args, kept)
    IN  [i \in 1..Len(named) |-> named[i].value]

\* the Tailwind group whose classes override one another; "none" for a
\* class Tailwind does not know
tailwindGroup(class) == IF class \in {"px-4", "px-2"} THEN "px" ELSE "none"

\* twMerge: a class is dropped when a later class of its group follows
twMerge(classes) ==
    LET last(i) == ~\E j \in (i + 1)..Len(classes) :
                       /\ tailwindGroup(classes[i]) # "none"
                       /\ tailwindGroup(classes[j]) = tailwindGroup(classes[i])
        kept == {i \in 1..Len(classes) : last(i)}
        nth(k) == CHOOSE i \in kept : Cardinality({j \in kept : j < i}) = k - 1
    IN  [k \in 1..Cardinality(kept) |-> classes[nth(k)]]

\* the classes as one string: a " " between neighbours
RECURSIVE join(_)
join(classes) ==
    IF Len(classes) = 0 THEN <<>>
    ELSE IF Len(classes) = 1 THEN <<classes[1]>>
    ELSE <<classes[1], " ">> \o join(Tail(classes))

\* cn(...inputs) = twMerge(clsx(inputs))
cn(args) == join(twMerge(clsx(args)))

\* a call of cn; a behaviour follows one call
Cn(args) ==
    /\ inputs = <<>>
    /\ inputs' = args
    /\ className' = cn(args)
    /\ UNCHANGED <<documents, requires_confirmation, document_versions,
                   document_events, event_visitors, visitor_confirmations,
                   session, upload, visitorVars, importVars, reportVars,
                   adminVars>>

NextCn == inputs = <<>> /\ \E args \in ArgLists : Cn(args)

SpecCn == InitAssigned /\ [][NextCn]_vars

\* ====================================================== properties
NumCurrent(d) == Cardinality(CurrentVersionsOf(document_versions, d))

HasVersions(d) == VersionsOf(document_versions, d) # {}

\* some confirmation row of (v, e) references version ver of document d
ConfirmedAt(confs, v, e, d, ver) == checkExistingConfirmation(confs, v, e, d, ver)

\* every required document of e has a confirmation of (v, e) at a current
\* version of the document, the tables being confs and vs
FullyConfirmed(confs, vs, v, e) ==
    \A d \in RequiredDocs(e) :
        \E ver \in CurrentVersionsOf(vs, d) : ConfirmedAt(confs, v, e, d, ver)

\* (v, e) has a confirmation of d, and none at a current version of d
Stale(confs, vs, v, e, d) ==
    /\ \E ver \in VersionsOf(vs, d) : ConfirmedAt(confs, v, e, d, ver)
    /\ ~\E ver \in CurrentVersionsOf(vs, d) : ConfirmedAt(confs, v, e, d, ver)

Assigned == {p \in Visitors \X Events : event_visitors[p] # NoRow}

C2_ConcurrentUploadsOneCurrent ==
    (\A a \in Admins : upload[a].pc = "idle")
        => \A d \in Docs : HasVersions(d) => NumCurrent(d) = 1

\* C3: with one admin working on the versions, a visitor who opens a document
\* that has versions never finds it without its single current version (the
\* dialog never reports that the document has no uploaded file).
C3_ReaderSeesOneCurrent ==
    \A s \in Sessions :
        session[s].error = "noFile" => ~HasVersions(session[s].currentDocumentId)

\* C4: a required document that the visitor confirmed only at versions that
\* are no longer current is flagged outdated in the dashboard row and is not
\* counted in the row's confirmed_docs, whatever order the rows come in.
C4_StaleNotCounted ==
    \A p \in Assigned : \A d \in requiredDocsPerEvent(p[2]) :
        Stale(visitor_confirmations, document_versions, p[1], p[2], d)
            => \A order \in ReturnOrders(Len(visitor_confirmations)) :
                  /\ hasOutdated(visitor_confirmations, order, p[1], p[2])
                  /\ d \notin countedDocs(visitor_confirmations, order, p[1], p[2])

\* C5: a confirmation of a required document after which every required
\* document of the event is confirmed by the visitor at its current version
\* sets the rsvp_status of the visitor's EventVisitor row to "confirmed".
C5_LastConfirmationSetsRsvp ==
    [][(Len(visitor_confirmations') = Len(visitor_confirmations) + 1) =>
         LET r == visitor_confirmations'[Len(visitor_confirmations')]
             p == <<r.visitor_id, r.event_id>>
         IN  (/\ r.document_id \in RequiredDocs(r.event_id)
              /\ FullyConfirmed(visitor_confirmations', document_versions,
                                r.visitor_id, r.event_id)
              /\ event_visitors[p] # NoRow)
                => event_visitors'[p] = "confirmed"]_vars

\* C5 witness: two required documents, both confirmed at their current
\* version, and the row is "confirmed"
C5_Witness ==
    \E p \in Assigned :
        /\ Cardinality(RequiredDocs(p[2])) = 2
        /\ FullyConfirmed(visitor_confirmations, document_versions, p[1], p[2])
        /\ event_visitors[p] = "confirmed"

\* C6: rsvp_status becomes "confirmed" only in a step after which every
\* required document of the event is confirmed by the visitor at its current
\* version.
C6_RsvpOnlyWhenFullyConfirmed ==
    [][\A p \in Visitors \X Events :
          (event_visitors[p] # "confirmed" /\ event_visitors'[p] = "confirmed")
             => FullyConfirmed(visitor_confirmations', document_versions',
                               p[1], p[2])]_vars

\* C7: an assigned (visitor, event) whose event has required documents is
\* left out of the pending list exactly when the visitor is fully confirmed,
\* in whatever order the confirmation rows are returned.
C7_ListedIffNotFullyConfirmed ==
    \A p \in Assigned :
        requiredDocsPerEvent(p[2]) # {} =>
            \A order \in ReturnOrders(Len(visitor_confirmations)) :
                ~Listed(visitor_confirmations, event_visitors, order, p[1], p[2])
                    <=> FullyConfirmed(visitor_confirmations, document_versions,
                                       p[1], p[2])

\* the documents assigned to e whose type requires confirmation and that
\* have a current version
RequiredWithCurrentVersion(e) ==
    {d \in Docs : /\ <<d, e>> \in document_events
                  /\ documents[d] # NoDoc
                  /\ requires_confirmation[documents[d]]
                  /\ CurrentVersionsOf(document_versions, d) # {}}

\* C8: the documents the completion check and the dashboard treat as required
\* for an event are exactly those assigned to it, of a type that requires
\* confirmation, and having a current version.
C8_RequiredSet ==
    \A e \in Events :
        /\ {document_versions[i].document_id : i \in RequiredCurrentVersions(e)}
              = RequiredWithCurrentVersion(e)
        /\ requiredDocsPerEvent(e) = RequiredWithCurrentVersion(e)

\* C9: every confirmation row references a version that is current when the
\* row is written, and a (visitor, event, document) becomes stale only in a
\* step that changes the version table.
C9_NoStaleWrite ==
    [][/\ (Len(visitor_confirmations') > Len(visitor_confirmations)) =>
            document_versions[visitor_confirmations'[Len(visitor_confirmations')]
                                  .document_version_id].is_current
       /\ \A p \in Visitors \X Events : \A d \in Docs :
            (/\ ~Stale(visitor_confirmations, document_versions, p[1], p[2], d)
             /\ Stale(visitor_confirmations', document_versions', p[1], p[2], d))
               => document_versions' # document_versions]_vars

\* what the dashboard can show for (v, e), over all return orders
PossibleRows(confs, ev, v, e) ==
    {[row |-> ConfirmationRow(confs, order, v, e),
      listed |-> Listed(confs, ev, order, v, e)] : order \in ReturnOrders(Len(confs))}

\* C10: recording the confirmation a session offers, for the current version,
\* a second time leaves rsvp_status, the card indicators and the dashboard
\* row as they are after the first time.
C10_ConfirmTwiceSameAsOnce ==
    \A s \in Sessions :
        (/\ ConfirmOffered(s)
         /\ session[s].currentVersionId
               \in CurrentVersionsOf(document_versions, session[s].currentDocumentId))
        => LET v == visitorId(s)
               e == eventId(s)
               once == RecordConfirmation(visitor_confirmations, event_visitors, v, e,
                          session[s].currentDocumentId, session[s].currentVersionId)
               twice == RecordConfirmation(once.confs, once.ev, v, e,
                          session[s].currentDocumentId, session[s].currentVersionId)
           IN  /\ twice.ev = once.ev
               /\ confirmedDocTypes(twice.confs, v, e) = confirmedDocTypes(once.confs, v, e)
               /\ PossibleRows(twice.confs, twice.ev, v, e)
                     = PossibleRows(once.confs, once.ev, v, e)

\* the dashboard flags document d of (v, e) as outdated (lines 268..277)
ReportedOutdated(confs, order, v, e, d) ==
    /\ d \in countedDocs(confs, order, v, e)
    /\ confirmationMap(confs, order, v, e, d) # currentVersionMap(d)

\* the documents whose current version the step changes
CurrentVersionChanged ==
    {d \in Docs : /\ HasVersions(d)
                  /\ CurrentVersionsOf(document_versions', d)
                        # CurrentVersionsOf(document_versions, d)}

\* C11: a step that changes a document's current version leaves every
\* confirmation row as it is, and afterwards the dashboard flags that
\* document, when required of an assigned visitor, as outdated exactly when
\* the visitor has confirmation rows for it and none of them references the
\* new current version, in whatever order the rows are returned.
C11_VersionChangeKeepsConfirmations ==
    [][\A d \in CurrentVersionChanged :
         /\ visitor_confirmations' = visitor_confirmations
         /\ \A p \in Assigned :
              \A order \in ReturnOrders(Len(visitor_confirmations)) :
                 (d \in requiredDocsPerEvent(p[2]) =>
                    (ReportedOutdated(visitor_confirmations, order, p[1], p[2], d)
                       <=> Stale(visitor_confirmations, document_versions,
                                 p[1], p[2], d)))']_vars

\* session s opens a document in this step: its dialog changes and no
\* confirmation is written
Opens(s) ==
    /\ session'[s] # session[s]
    /\ session'[s].error \notin {"unableToSave", "insertFailed"}
    /\ ~session'[s].confirmationSuccess

\* C13: opening a document that has no current version shows the "no
\* uploaded file yet" error, and no step a session takes while its dialog
\* shows that error inserts a confirmation row or changes an rsvp_status.
C13_NoCurrentVersionNoConfirmation ==
    [][\A s \in Sessions :
         /\ (/\ Opens(s)
             /\ session'[s].currentDocumentId # NoDoc
             /\ CurrentVersionsOf(document_versions,
                                  session'[s].currentDocumentId) = {})
               => session'[s].error = "noFile"
         /\ (session[s].error = "noFile" /\ session'[s] # session[s])
               => /\ visitor_confirmations' = visitor_confirmations
                  /\ event_visitors' = event_visitors]_vars

\* C13 witness: the dialog of a confirmation-requiring document that has
\* version rows, none of them current, shows the error
C13_Witness ==
    \E s \in Sessions :
        /\ session[s].error = "noFile"
        /\ session[s].requiresConfirmation
        /\ HasVersions(session[s].currentDocumentId)
        /\ NumCurrent(session[s].currentDocumentId) = 0

\* C17: within one document every version row carries a version_number
\* greater than that of every row inserted before it, so no two versions of
\* a document share a number, also when two uploads interleave.
C17_VersionNumbersIncrease ==
    \A i, j \in VersionIds :
        (/\ i < j
         /\ document_versions[i].document_id = document_versions[j].document_id)
        => document_versions[i].version_number < document_versions[j].version_number

\* C18: a step that inserts no version row, such as an upload whose insert
\* fails after the clear, leaves every document that had its one current
\* version with one current version.
C18_FailedUploadKeepsCurrent ==
    [][(Len(document_versions') = Len(document_versions))
          => \A d \in Docs :
                NumCurrent(d) = 1 =>
                   Cardinality(CurrentVersionsOf(document_versions', d)) = 1]_vars

Fetches(s) ==
    \/ home'[s] # home[s]
    \/ session'[s] = closedDialog /\ session[s] # closedDialog
    \/ session'[s].confirmationSuccess /\ ~session[s].confirmationSuccess

\* the visitor of session s has no EventVisitor row for the session's event
Unassigned(s) ==
    \/ visitorId(s) = NoVisitor
    \/ eventId(s) = NoEvent
    \/ event_visitors[<<visitorId(s), eventId(s)>>] = NoRow

\* C14: whenever the landing page computes the confirmation status of a
\* visitor who has no EventVisitor row for the event, the required set is
\* empty, and no (visitor, event) without a row is in the dashboard's
\* pending list, whatever order the confirmation rows come in.
C14_UnassignedNothingRequired ==
    [][/\ \A s \in Sessions :
             Fetches(s) =>
                (Unassigned(s) =>
                    fetchConfirmationStatus(s).requiresConfirmationDocTypes = {})'
       /\ \A p \in Visitors \X Events :
             (event_visitors[p] = NoRow =>
                \A order \in ReturnOrders(Len(visitor_confirmations)) :
                   ~Listed(visitor_confirmations, event_visitors, order, p[1], p[2]))'
      ]_vars

\* the data rows of the sheet that are not completely empty
ProcessedRows == {i \in 1..Len(worksheet) : ~isEmptyRow(worksheet[i])}

\* the error entries, the inserted visitors and the inserted event
\* assignments that come from data row i (sheet row i + 1)
ErrorsOf(i) ==
    {k \in 1..Len(uploadResult.errors) : uploadResult.errors[k].row = i + 1}

VisitorsOf(i) == {k \in 1..Len(newVisitors) : newVisitors[k].row = i + 1}

AssignmentsOf(i) ==
    {k \in 1..Len(newEventVisitors) :
        /\ newEventVisitors[k].row = i + 1
        /\ newEventVisitors[k].event_id \in Events
        /\ newEventVisitors[k].rsvp_status = "invited"}

\* C15: when exactly one of the N rows of an import has a malformed phone
\* number and the others are valid, the result has success = N - 1 and one
\* error entry, which names the bad row and the phone format, and each other
\* row has got one visitor and one event assignment, wherever the bad row is.
C15_OneBadPhoneRow ==
    LET n == Len(worksheet)
        bad == {i \in 1..n : worksheet[i] \in BadPhoneRows}
    IN  (/\ Cardinality(bad) = 1
         /\ \A i \in (1..n) \ bad : worksheet[i] \in GoodRows)
        => /\ uploadResult.total = n
           /\ uploadResult.success = n - 1
           /\ Len(uploadResult.errors) = 1
           /\ \A i \in bad :
                 /\ uploadResult.errors[1].row = i + 1
                 /\ uploadResult.errors[1].reason.kind = "phone"
                 /\ VisitorsOf(i) = {}
                 /\ AssignmentsOf(i) = {}
           /\ \A i \in (1..n) \ bad :
                 /\ Cardinality(VisitorsOf(i)) = 1
                 /\ Cardinality(AssignmentsOf(i)) = 1

\* C15 witness: three rows, the malformed phone in the middle one, two
\* visitors imported
C15_Witness ==
    /\ Len(worksheet) = 3
    /\ worksheet[1] \in GoodRows
    /\ worksheet[2] \in BadPhoneRows
    /\ worksheet[3] \in GoodRows
    /\ uploadResult.success = 2
    /\ Len(newVisitors) = 2

\* each processed row is either imported, with no error entry, or has
\* exactly one error entry with a reason and no event assignment; empty rows
\* have neither
RowsAccounted ==
    /\ uploadResult.total = Cardinality(ProcessedRows)
    /\ \A i \in 1..Len(worksheet) :
          IF i \in ProcessedRows
          THEN \/ /\ Cardinality(AssignmentsOf(i)) = 1
                  /\ ErrorsOf(i) = {}
               \/ /\ AssignmentsOf(i) = {}
                  /\ Cardinality(ErrorsOf(i)) = 1
                  /\ \A k \in ErrorsOf(i) :
                        uploadResult.errors[k].reason.kind # "none"
          ELSE AssignmentsOf(i) = {} /\ ErrorsOf(i) = {}

\* C16 as stated: the result of an import has total = success + number of
\* error entries, every failed row has exactly one error entry with its row
\* number and a reason, and no imported row has one.
C16_ResultAccountsForRows ==
    /\ uploadResult.total = uploadResult.success + Len(uploadResult.errors)
    /\ RowsAccounted

\* the result reports that the workbook could not be used: one entry, for
\* row 0
FormatErrorReported ==
    /\ Len(uploadResult.errors) = 1
    /\ uploadResult.errors[1].row = 0

\* C16 amended: unless the workbook could not be used, the result is as C16
\* states; if it could not, the result is total 0, success 0 and the one
\* entry for row 0, and nothing was written.
C16_ResultAccountsForRowsOfUsableFile ==
    IF FormatErrorReported
    THEN /\ uploadResult.total = 0
         /\ uploadResult.success = 0
         /\ newVisitors = <<>>
         /\ newEventVisitors = <<>>
    ELSE /\ uploadResult.total = uploadResult.success + Len(uploadResult.errors)
         /\ uploadResult.success =
               Cardinality({i \in ProcessedRows : AssignmentsOf(i) # {}})
         /\ RowsAccounted

\* C16 witness: an import with an imported row, a row that failed validation
\* and a row whose event assignment the database refused
C16_Witness ==
    /\ uploadResult.success = 1
    /\ \E j, k \in 1..Len(uploadResult.errors) :
          /\ uploadResult.errors[j].reason.kind = "assignment"
          /\ uploadResult.errors[k].reason.kind = "missing"

\* C20: the visitors handed to send-reminder-emails are visitors of rows
\* that are shown under the current search and are ticked, and no visitor is
\* handed over twice.
C20_RemindersOnlyToSelectedShownRows ==
    [][Len(reminded') = Len(reminded) + 1 =>
         LET body == reminded'[Len(reminded')]
             shown == filtered(confirmations, search)
         IN  /\ \A k \in 1..Len(body) :
                   \E i \in 1..Len(shown) :
                      /\ shown[i].visitor_id = body[k]
                      /\ idText(shown[i].visitor_id) \o <<"-">> \o idText(shown[i].event_id)
                            \in selectedRows
             /\ \A j, k \in 1..Len(body) : j # k => body[j] # body[k]]_vars

\* C20 witness: a call whose one recipient was ticked on two rows, one for
\* each event (the call failed, so the rows are still ticked)
C20_Witness ==
    /\ Len(reminded) >= 1
    /\ Len(reminded[Len(reminded)]) = 1
    /\ Cardinality(selectedRows) = 2
    /\ Len(getSelectedVisitors) = 2

\* the positions of the class names among the arguments of the last call
ClassNameArgs ==
    {i \in 1..Len(inputs) : inputs[i].kind = "string" /\ inputs[i].value # ""}

\* C19: when no two class-name arguments are Tailwind classes of one group,
\* the value returned is the class names in argument order with one space
\* between neighbours, the false, undefined and null arguments left out, and
\* the empty string when there is no argument.
C19_CnJoinsClassNames ==
    (\A i, j \in ClassNameArgs :
        i # j => \/ tailwindGroup(inputs[i].value) = "none"
                 \/ tailwindGroup(inputs[i].value) # tailwindGroup(inputs[j].value))
    => /\ Len(className) = (IF ClassNameArgs = {} THEN 0
                            ELSE 2 * Cardinality(ClassNameArgs) - 1)
       /\ \A i \in ClassNameArgs :
             className[2 * Cardinality({j \in ClassNameArgs : j < i}) + 1]
                = inputs[i].value
       /\ \A k \in 1..Len(className) : k % 2 = 0 => className[k] = " "

\* C19 witness: cn("foo", null, "bar") gave "foo bar"
C19_Witness ==
    /\ Len(inputs) = 3
    /\ inputs[2].kind = "null"
    /\ className = <<"foo", " ", "bar">>

\* checkAllDocumentsConfirmed reaches its update of rsvp_status (line 398):
\* none of the early returns is taken and the rows counted are enough
allDocumentsConfirmed(confs, v, e) ==
    /\ RequiredTypeIds # {}
    /\ {d \in Docs : <<d, e>> \in document_events} # {}
    /\ RequiredDocs(e) # {}
    /\ RequiredCurrentVersions(e) # {}
    /\ AllConfirmed(confs, v, e, RequiredCurrentVersions(e))

\* C21: for every assigned (visitor, event) whose event is upcoming and has a
\* required document, checkAllDocumentsConfirmed judges all required
\* documents confirmed exactly when fetchConfirmations leaves the pair out of
\* the pending list, in whatever order the confirmation rows are returned.
C21_CompletenessComputationsAgree ==
    \A p \in Assigned :
        (p[2] \in UpcomingEvents /\ requiredDocsPerEvent(p[2]) # {}) =>
            \A order \in ReturnOrders(Len(visitor_confirmations)) :
                allDocumentsConfirmed(visitor_confirmations, p[1], p[2])
                    <=> ~Listed(visitor_confirmations, event_visitors, order,
                                p[1], p[2])

\* C22: an EventVisitor row with rsvp_status "confirmed" belongs to a visitor
\* who has confirmed every required document of the event at its current
\* version.
C22_ConfirmedRowIsFullyConfirmed ==
    \A p \in Visitors \X Events :
        event_visitors[p] = "confirmed"
            => FullyConfirmed(visitor_confirmations, document_versions, p[1], p[2])

RowsOfSession(confs, s, d) ==
    {i \in 1..Len(confs) : /\ confs[i].visitor_id = visitorId(s)
                           /\ confs[i].event_id = eventId(s)
                           /\ confs[i].document_id = d}

\* C24: a visitor whose confirmations of a document are all against versions
\* other than the current one is offered the confirm control on opening the
\* document; confirming the version that is current adds one row for that
\* version and keeps the other rows, and afterwards the card of the document,
\* while it is a required document of the event, shows it as confirmed.
C24_ReconfirmAfterVersionChange ==
    [][\A s \in Sessions :
         LET opened == session'[s].currentDocumentId
             d == session[s].currentDocumentId
             ver == session[s].currentVersionId
         IN  /\ (/\ Opens(s)
                 /\ session'[s].documentUrl
                 /\ session'[s].requiresConfirmation
                 /\ RowsOfSession(visitor_confirmations, s, opened) # {}
                 /\ \A i \in RowsOfSession(visitor_confirmations, s, opened) :
                       visitor_confirmations[i].document_version_id
                          # session'[s].currentVersionId)
                => ConfirmOffered(s)'
             /\ (/\ ConfirmOffered(s)
                 /\ session'[s].confirmationSuccess
                 /\ ver \in CurrentVersionsOf(document_versions, d))
                => /\ Len(visitor_confirmations') = Len(visitor_confirmations) + 1
                   /\ SubSeq(visitor_confirmations', 1, Len(visitor_confirmations))
                         = visitor_confirmations
                   /\ visitor_confirmations'[Len(visitor_confirmations')]
                         = [visitor_id |-> visitorId(s), event_id |-> eventId(s),
                            document_id |-> d, document_version_id |-> ver]
                   /\ d \in RequiredDocs(eventId(s))
                         => documents[d] \in
                               confirmedDocTypes(visitor_confirmations',
                                                 visitorId(s), eventId(s))]_vars

\* C24 witness: the session has confirmed the current version of a document
\* of which it had confirmed an earlier version; both rows are there
C24_Witness ==
    \E s \in Sessions :
        /\ session[s].confirmationSuccess
        /\ Len(visitor_confirmations) = 2
        /\ visitor_confirmations[1].document_id = visitor_confirmations[2].document_id
        /\ visitor_confirmations[1].document_version_id
              # visitor_confirmations[2].document_version_id
        /\ visitor_confirmations[2].document_version_id
              \in CurrentVersionsOf(document_versions, session[s].currentDocumentId)
        /\ visitor_confirmations[2].document_version_id = session[s].currentVersionId

\* C25: when handleSaveAssignments succeeds for an event with the selected
\* visitor set S, the event's EventVisitor rows afterwards are one row per
\* visitor in S and none for anyone else, each with rsvp_status "invited",
\* whatever the rows were before.
C25_SavedAssignmentsAreInvited ==
    [][\A e \in Events, S \in SUBSET Visitors :
          HandleSaveAssignments(e, S, TRUE, TRUE)
             => \A v \in Visitors :
                   event_visitors'[<<v, e>>] = (IF v \in S THEN "invited" ELSE NoRow)]_vars

\* C25 witness: visitor v1 has confirmed the current version of the event's
\* only required document and the row of (v1, e1) reads "invited" again,
\* while visitor v2 is no longer assigned
C25_Witness ==
    /\ event_visitors[<<"v1", "e1">>] = "invited"
    /\ event_visitors[<<"v2", "e1">>] = NoRow
    /\ session["s1"].confirmationSuccess
    /\ \E i \in 1..Len(visitor_confirmations) :
          /\ visitor_confirmations[i].visitor_id = "v1"
          /\ visitor_confirmations[i].document_version_id
                \in RequiredCurrentVersions("e1")

\* C26: a save of assignments that reports an error, because its delete or
\* its insert failed, leaves the EventVisitor rows as they were, on the
\* events page and on the visitors page.
C26_FailedSaveKeepsAssignments ==
    [][/\ \A e \in Events, S \in SUBSET Visitors, deleteOk, insertOk \in BOOLEAN :
            (/\ HandleSaveAssignments(e, S, deleteOk, insertOk)
             /\ (~deleteOk \/ (S # {} /\ ~insertOk)))
               => event_visitors' = event_visitors
       /\ \A v \in Visitors, E \in SUBSET Events, deleteOk, insertOk \in BOOLEAN :
            (/\ HandleSaveVisitorAssignments(v, E, deleteOk, insertOk)
             /\ (~deleteOk \/ (E # {} /\ ~insertOk)))
               => event_visitors' = event_visitors]_vars

\* C27: every visitor a step deletes is shown in the filtered list of the
\* visitors page at the time of the deletion.
C27_DeletedVisitorsAreShown ==
    [][(visitors \ visitors') \subseteq filteredVisitors]_vars

\* the data rows that have an entry in the error list
FailedRows == {i \in 1..Len(worksheet) : ErrorsOf(i) # {}}

\* C28 as stated: the number of visitor records an import creates is its
\* success count, and a row with an entry in the error list has created no
\* visitor record.
C28_VisitorsCreatedEqualSuccess ==
    /\ Len(newVisitors) = uploadResult.success
    /\ \A i \in FailedRows : VisitorsOf(i) = {}

\* the data rows whose error entry says that the visitor was created and the
\* event assignment failed
AssignmentFailedRows ==
    {i \in 1..Len(worksheet) :
        \E k \in ErrorsOf(i) : uploadResult.errors[k].reason.kind = "assignment"}

\* C28 amended: the visitor records an import creates are one for each
\* imported row and one for each row reported as "visitor created but event
\* assignment failed"; every other row of the error list has created no
\* visitor record, and no row of the error list has an event assignment.
C28_VisitorsCreatedExceptAssignmentFailures ==
    /\ Len(newVisitors) = uploadResult.success + Cardinality(AssignmentFailedRows)
    /\ \A i \in FailedRows :
          /\ Cardinality(VisitorsOf(i)) = (IF i \in AssignmentFailedRows THEN 1 ELSE 0)
          /\ AssignmentsOf(i) = {}
    /\ \A i \in (1..Len(worksheet)) \ FailedRows :
          Cardinality(VisitorsOf(i)) = Cardinality(AssignmentsOf(i))

\* C28 witness: an import with an imported row, a row whose visitor insert
\* the database refused and a row whose event assignment it refused
C28_Witness ==
    /\ uploadResult.success = 1
    /\ Len(newVisitors) = 2
    /\ AssignmentFailedRows # {}
    /\ \E k \in 1..Len(uploadResult.errors) :
          uploadResult.errors[k].reason.kind = "database"

\* C29: a non-empty row is imported, with one visitor and one event
\* assignment and no error entry, exactly when its First Name, Last Name,
\* Email, Organization and Event are non-empty, the Organization is the name
\* of an organization and the Event the label of an event, letter case
\* ignored, and the Phone is empty or ddd-ddd-dddd; any other non-empty row
\* writes nothing and has one error entry, whose reason is the first of
\* missing fields, organization, event, phone that applies.
C29_RowImportedIffValid ==
    \A i \in ProcessedRows :
        LET r == worksheet[i]
            present == /\ r.firstName # <<>> /\ r.lastName # <<>> /\ r.email # <<>>
                       /\ r.orgName # <<>> /\ r.eventName # <<>>
            orgFound == \E c \in companies :
                           toLowerCase(c.name) = toLowerCase(r.orgName)
            eventFound == \E e \in allEvents :
                             toLowerCase(eventLabel(e)) = toLowerCase(r.eventName)
            phoneGood ==
                \/ r.phone = <<>>
                \/ /\ Len(r.phone) = 12
                   /\ \A k \in 1..12 : (r.phone[k] = "-") <=> (k \in {4, 8})
            first == IF ~present THEN "missing"
                     ELSE IF ~orgFound THEN "organization"
                     ELSE IF ~eventFound THEN "event"
                     ELSE "phone"
        IN  IF present /\ orgFound /\ eventFound /\ phoneGood
            THEN /\ Cardinality(VisitorsOf(i)) = 1
                 /\ Cardinality(AssignmentsOf(i)) = 1
                 /\ ErrorsOf(i) = {}
            ELSE /\ VisitorsOf(i) = {}
                 /\ AssignmentsOf(i) = {}
                 /\ Cardinality(ErrorsOf(i)) = 1
                 /\ \A k \in ErrorsOf(i) : uploadResult.errors[k].reason.kind = first

\* C29 witness: a sheet with an imported row and a row that has neither a
\* known event nor a well-formed phone, reported for its event
C29_Witness ==
    /\ uploadResult.success >= 1
    /\ \E i \in ProcessedRows :
          /\ worksheet[i].phone = <<"0">>
          /\ worksheet[i].eventName = <<"G">>
          /\ \E k \in ErrorsOf(i) : uploadResult.errors[k].reason.kind = "event"

\* C30: a step that changes a document's is_active flag changes no table
\* row besides, and leaves the required documents of every event, the cards
\* and the dashboard row of every visitor and every rsvp_status as they
\* were; afterwards an inactive document that is assigned to an event and
\* whose type requires confirmation is among the event's required documents
\* on the landing page and on the dashboard, and an assigned visitor without
\* a confirmation of it is not judged complete and is in the pending list.
C30_ToggleActiveChangesNothingElse ==
    [][is_active' # is_active =>
         /\ UNCHANGED <<documents, requires_confirmation, document_versions,
                        document_events, event_visitors, visitor_confirmations>>
         /\ \A e \in Events :
               /\ RequiredDocs(e)' = RequiredDocs(e)
               /\ RequiredCurrentVersions(e)' = RequiredCurrentVersions(e)
               /\ requiredDocsPerEvent(e)' = requiredDocsPerEvent(e)
               /\ \A v \in Visitors :
                     /\ confirmedDocTypes(visitor_confirmations, v, e)'
                           = confirmedDocTypes(visitor_confirmations, v, e)
                     /\ allDocumentsConfirmed(visitor_confirmations, v, e)'
                           = allDocumentsConfirmed(visitor_confirmations, v, e)
                     /\ PossibleRows(visitor_confirmations, event_visitors, v, e)'
                           = PossibleRows(visitor_confirmations, event_visitors, v, e)
         /\ (\A e \in Events, d \in Docs :
                (/\ ~is_active[d]
                 /\ <<d, e>> \in document_events
                 /\ documents[d] # NoDoc
                 /\ requires_confirmation[documents[d]])
                => /\ d \in RequiredDocs(e)
                   /\ d \in requiredDocsPerEvent(e)
                   /\ \A v \in Visitors :
                         (/\ event_visitors[<<v, e>>] # NoRow
                          /\ ~\E i \in 1..Len(visitor_confirmations) :
                                /\ visitor_confirmations[i].visitor_id = v
                                /\ visitor_confirmations[i].event_id = e
                                /\ visitor_confirmations[i].document_id = d)
                         => /\ ~allDocumentsConfirmed(visitor_confirmations, v, e)
                            /\ \A order \in ReturnOrders(Len(visitor_confirmations)) :
                                  Listed(visitor_confirmations, event_visitors,
                                         order, v, e))']_vars

\* C30 witness: document d1 is inactive, assigned to the event and of a type
\* that requires confirmation, and visitor v1, who has confirmed the other
\* required document, is still "invited"
C30_Witness ==
    /\ ~is_active["d1"]
    /\ RequiredDocs("e1") = {"d1", "d2"}
    /\ Len(visitor_confirmations) = 1
    /\ visitor_confirmations[1].document_id = "d2"
    /\ visitor_confirmations[1].document_version_id \in RequiredCurrentVersions("e1")
    /\ event_visitors[<<"v1", "e1">>] = "invited"

====
